---------------------------- MODULE Spec2Model ----------------------------
(***************************************************************************)
(* Trust verification and consensus engine of the city cleanliness         *)
(* platform: the Supabase edge functions create-pending-session,           *)
(* submit-cleanup-report and check-dirty-consensus, the client flow that   *)
(* files a dirty report (DirtyReportScreen.submitReport), and the tables   *)
(* of schema.sql they read and write.                                      *)
(*                                                                         *)
(* Every handler is a stateless request that talks to the store through    *)
(* awaited calls.  A handler is modelled as a process slot whose steps are *)
(* the awaited store calls, so that requests interleave exactly where the  *)
(* code awaits.                                                            *)
(*                                                                         *)
(* Units.  Time is in minutes of the server clock.  A GPS fix is a point   *)
(* of one meridian (all fixes share the longitude); its latitude is given  *)
(* in metres of arc, i.e. in units of 180/(pi*R) degrees.                  *)
(***************************************************************************)
EXTENDS Integers, Sequences, FiniteSets

VARIABLES
    now,               \* the server clock (Date.now(), now()), in minutes
    locations,         \* public.locations: id -> [status, last_cleaned_at]
    pending_sessions,  \* public.pending_sessions: a set of rows
    cleanup_reports,   \* public.cleanup_reports: rows in insertion order
    dirty_reports,     \* public.dirty_reports: a set of rows
    points_log,        \* public.points_log: rows in insertion order
    users,             \* public.users: id -> [total_points, cleanups_done]
    notifications,     \* public.notifications: rows in insertion order
    pushes,            \* messages posted to the Expo push service, in order
    grid,              \* public.locations rows created for new grid cells
    leaderboard_snapshots, \* public.leaderboard_snapshots: a set of rows
    req,               \* the request each handler slot is serving
    nextSession,       \* the next pending_sessions id (gen_random_uuid())
    nreq               \* requests received so far

vars == <<now, locations, pending_sessions, cleanup_reports, dirty_reports,
          points_log, users, notifications, pushes, grid,
          leaderboard_snapshots, req, nextSession, nreq>>

tables == <<locations, pending_sessions, cleanup_reports, dirty_reports,
            points_log, users, notifications, pushes, grid,
            leaderboard_snapshots>>

-----------------------------------------------------------------------------
(* Bounds of the model *)

\* Open and cleanup requests received in one behaviour.
MaxRequests == 3

\* Dirty report requests received in one behaviour.
MaxReportRequests == 4

\* Pending sessions opened in one behaviour.
MaxSessions == 2

\* Handler slots: requests that can be in flight at the same time.
Procs == {"p1", "p2"}

AllUsers == {"u1", "u2", "u3", "u4"}
AllLocs == {"l1", "l2"}

-----------------------------------------------------------------------------
(* Program constants *)

\* submit-cleanup-report: if (elapsedMin > 120)
MaxElapsedMin == 120
\* submit-cleanup-report: if (distance > 500)
MaxDistance == 500
\* submit-cleanup-report: after_gps_accuracy > 50 || session.gps_accuracy > 50
MaxAccuracy == 50
\* submit-cleanup-report: const points = isReClean ? 15 : 10
BasePoints == 10
BonusPoints == 15
\* check-dirty-consensus: if (uniqueUsers.size < 3)
ConsensusThreshold == 3
\* check-dirty-consensus: points: 3
ConfirmationPoints == 3
\* check-dirty-consensus: Date.now() - 24 * 60 * 60 * 1000, in minutes
WindowMinutes == 1440

-----------------------------------------------------------------------------
(* Pure helpers *)

Abs(x) == IF x < 0 THEN -x ELSE x

\* haversine(lat1, lng1, lat2, lng2) for two fixes of one meridian.  With
\* dLng = 0 the code computes a = sin(dLat/2)^2 and R * 2 * asin(sqrt(a)),
\* which is R * |dLat| (in radians): the length of the arc between the two
\* latitudes.  Latitudes are in metres of arc, so that length is |lat2 - lat1|.
haversine(lat1, lng1, lat2, lng2) ==
    LET dLat == lat2 - lat1
        dLng == lng2 - lng1
    IN  IF dLng = 0 THEN Abs(dLat) ELSE Abs(dLng)

\* new Date().toISOString().slice(0, 7): the month key of an instant.  The
\* clock starts at the first minute of a 30-day month.
MonthOf(t) == t \div (30 * 1440)

\* new Date().toISOString().slice(0, 10): the calendar day of an instant.
DateOf(t) == t \div 1440

\* A handler slot that has served no request yet.
Idle == [op |-> "idle", pc |-> "done", result |-> "none"]

\* The slots are interchangeable, so a request takes the second slot only
\* while the first is busy.
Free(p) ==
    /\ req[p].op = "idle"
    /\ p = "p2" => req["p1"].op # "idle"

\* A finished request: the response the handler returns, kept with the
\* request it answers and what the handler measured on the way.
Done(r, result) == [r EXCEPT !.pc = "done", !.result = result]

InFlight(p, op) == req[p].op = op /\ req[p].pc # "done"

\* Slot p moves on to n: its next await, or the response it returns.
Advance(p, n) == req' = [req EXCEPT ![p] = n]

\* The response has gone out; the slot is free again.
Return(p) ==
    /\ req[p].op # "idle" /\ req[p].pc = "done"
    /\ req' = [req EXCEPT ![p] = Idle]
    /\ UNCHANGED <<now, tables, nextSession, nreq>>

-----------------------------------------------------------------------------
(* create-pending-session: POST /sessions *)

OpenRequest(u, loc, h, lat, lng, acc) ==
    [op |-> "open", pc |-> "dup", result |-> "none",
     user_id |-> u, location_id |-> loc, before_image_hash |-> h,
     gps_lat |-> lat, gps_lng |-> lng, gps_accuracy |-> acc,
     session_id |-> 0,
     \* history: was the fingerprint in report history, in either role, when
     \* the handler ran its duplicate check
     inHistory |-> FALSE]

\* The duplicate check of create-pending-session:
\* .from('cleanup_reports').eq('before_image_hash', before_image_hash)
OpenExisting(h) ==
    \E i \in DOMAIN cleanup_reports : cleanup_reports[i].before_image_hash = h

\* A fingerprint of report history, in the before or the after role.
InReportHistory(h) ==
    \E i \in DOMAIN cleanup_reports :
        \/ cleanup_reports[i].before_image_hash = h
        \/ cleanup_reports[i].after_image_hash = h

\* The request arrives and the handler awaits its duplicate check; a hit is
\* answered 400 'Duplicate image detected'.
OpenDup(p, u, loc, h, lat, lng, acc) ==
    /\ Free(p)
    /\ nreq < MaxRequests
    /\ nreq' = nreq + 1
    /\ nextSession + Cardinality({q \in Procs : InFlight(q, "open")}) <= MaxSessions
    /\ LET r == [OpenRequest(u, loc, h, lat, lng, acc)
                    EXCEPT !.inHistory = InReportHistory(h)]
       IN  Advance(p,
                      IF OpenExisting(h) THEN Done(r, "DuplicateEvidence")
                      ELSE [r EXCEPT !.pc = "insert"])
    /\ UNCHANGED <<now, tables, nextSession>>

\* .from('pending_sessions').insert({..., before_time: new Date().toISOString()})
OpenInsert(p) ==
    /\ InFlight(p, "open") /\ req[p].pc = "insert"
    /\ pending_sessions' = pending_sessions \cup
          {[id |-> nextSession,
            user_id |-> req[p].user_id,
            location_id |-> req[p].location_id,
            before_image_hash |-> req[p].before_image_hash,
            before_time |-> now,
            gps_lat |-> req[p].gps_lat,
            gps_lng |-> req[p].gps_lng,
            gps_accuracy |-> req[p].gps_accuracy]}
    /\ nextSession' = nextSession + 1
    /\ Advance(p,
                  Done([req[p] EXCEPT !.session_id = nextSession], "created"))
    /\ UNCHANGED <<now, locations, cleanup_reports, dirty_reports, points_log,
                   users, notifications, pushes, nreq,
                   grid, leaderboard_snapshots>>

-----------------------------------------------------------------------------
(* submit-cleanup-report: POST /reports/cleanup *)

NoSession == [id |-> 0]

SubmitRequest(u, sid, loc, h, lat, lng, acc) ==
    [op |-> "submit", pc |-> "fetch", result |-> "none",
     user_id |-> u, session_id |-> sid, location_id |-> loc,
     after_image_hash |-> h,
     after_gps_lat |-> lat, after_gps_lng |-> lng, after_gps_accuracy |-> acc,
     session |-> NoSession,
     elapsedMin |-> 0, distance |-> 0, gpsLowConfidence |-> FALSE,
     imageDiffPassed |-> TRUE, cloudName |-> FALSE,
     isReClean |-> FALSE, isVerified |-> FALSE,
     \* history: was after_image_hash in report history, in either role,
     \* when the request arrived; the instant of the time window check; the
     \* store writes the handler has made
     inHistory |-> FALSE, checkedAt |-> 0, wrote |-> 0]

\* A lookup by session id alone.
FetchSession_ById(sid, u) ==
    {s \in pending_sessions : s.id = sid}

\* .from('pending_sessions').select('*').eq('id', session_id)
\*   .eq('user_id', user.id).single()
FetchSession(sid, u) ==
    {s \in pending_sessions : s.id = sid /\ s.user_id = u}

\* 1. Fetch pending session; none is answered 400 'Session not found or not
\* yours.'
SubmitFetch(p, u, sid, loc, h, lat, lng, acc) ==
    /\ Free(p)
    /\ nreq < MaxRequests
    /\ nreq' = nreq + 1
    /\ LET r == [SubmitRequest(u, sid, loc, h, lat, lng, acc)
                    EXCEPT !.inHistory = InReportHistory(h)]
           found == FetchSession(sid, u)
       IN  Advance(p,
                      IF found = {} THEN Done(r, "NotFound")
                      ELSE [r EXCEPT !.pc = "check",
                                     !.session = CHOOSE s \in found : TRUE])
    /\ UNCHANGED <<now, tables, nextSession>>

\* A time window check that also turns away a submission made at exactly
\* 120 minutes.
TimeWindowExceeded_AtLeast(elapsedMin) == elapsedMin >= MaxElapsedMin

\* 2. Time window check: elapsedMin > 120
TimeWindowExceeded(elapsedMin) == elapsedMin > MaxElapsedMin

\* A GPS match that also turns away a fix exactly 500 m from the session's.
GpsMismatch_AtLeast(distance) == distance >= MaxDistance

\* 3. GPS match: distance > 500
GpsMismatch(distance) == distance > MaxDistance

\* Flag low-confidence GPS instead of rejecting
GpsLowConfidence(after_gps_accuracy, session_gps_accuracy) ==
    after_gps_accuracy > MaxAccuracy \/ session_gps_accuracy > MaxAccuracy

\* 2. and 3.: the handler reads the clock once the session has arrived and
\* measures the distance; both are computed without a store call.
SubmitCheck(p) ==
    /\ InFlight(p, "submit") /\ req[p].pc = "check"
    /\ LET r == req[p]
           elapsedMin == now - r.session.before_time
           distance == haversine(r.session.gps_lat, r.session.gps_lng,
                                 r.after_gps_lat, r.after_gps_lng)
           m == [r EXCEPT !.elapsedMin = elapsedMin, !.distance = distance,
                          !.checkedAt = now]
       IN  Advance(p,
                      IF TimeWindowExceeded(elapsedMin)
                      THEN Done(m, "TimeWindowExceeded")
                      ELSE IF GpsMismatch(distance)
                      THEN Done(m, "GeoMismatch")
                      ELSE [m EXCEPT !.pc = "dup",
                                !.gpsLowConfidence =
                                    GpsLowConfidence(r.after_gps_accuracy,
                                                     r.session.gps_accuracy)])
    /\ UNCHANGED <<now, tables, nextSession, nreq>>

\* A duplicate check that looks at the after column only.
SubmitDupCheck_AfterOnly(h) ==
    \E i \in DOMAIN cleanup_reports : cleanup_reports[i].after_image_hash = h

\* 4. Duplicate after-image check:
\* .or(`after_image_hash.eq.${h},before_image_hash.eq.${h}`)
SubmitDupCheck(h) ==
    \E i \in DOMAIN cleanup_reports :
        \/ cleanup_reports[i].after_image_hash = h
        \/ cleanup_reports[i].before_image_hash = h

\* What the image diff block (5.) can do: the three Cloudinary variables
\* are not all set ("unconfigured"), they are set and the block runs
\* through ("ran"), or the block throws ("threw").
DiffOutcomes == {"unconfigured", "ran", "threw"}

\* 4. and 5.: the duplicate check, then the image diff block, which makes no
\* store call.
SubmitDup(p, diff) ==
    /\ InFlight(p, "submit") /\ req[p].pc = "dup"
    /\ Advance(p,
                  IF SubmitDupCheck(req[p].after_image_hash)
                  THEN Done(req[p], "DuplicateEvidence")
                  ELSE [req[p] EXCEPT !.pc = "prev",
                                      !.imageDiffPassed = (diff # "threw"),
                                      !.cloudName = (diff # "unconfigured")])
    /\ UNCHANGED <<now, tables, nextSession, nreq>>

\* 6. .from('cleanup_reports').eq('user_id', user.id)
\*      .eq('location_id', location_id)
PrevCleanup(u, loc) ==
    \E i \in DOMAIN cleanup_reports :
        /\ cleanup_reports[i].user_id = u
        /\ cleanup_reports[i].location_id = loc

\* 7. isVerified = !gpsLowConfidence && (imageDiffPassed || !CLOUDINARY_CLOUD_NAME)
\* A decision that looks at the GPS confidence only.
IsVerified_GpsOnly(gpsLowConfidence, imageDiffPassed, cloudName) ==
    ~gpsLowConfidence /\ (imageDiffPassed \/ ~imageDiffPassed \/ cloudName)

IsVerified(gpsLowConfidence, imageDiffPassed, cloudName) ==
    ~gpsLowConfidence /\ (imageDiffPassed \/ ~cloudName)

\* 6. and 7.
SubmitPrev(p) ==
    /\ InFlight(p, "submit") /\ req[p].pc = "prev"
    /\ Advance(p,
                  [req[p] EXCEPT
                      !.pc = "insert",
                      !.isReClean = PrevCleanup(req[p].user_id, req[p].location_id),
                      !.isVerified = IsVerified(req[p].gpsLowConfidence,
                                                req[p].imageDiffPassed,
                                                req[p].cloudName)])
    /\ UNCHANGED <<now, tables, nextSession, nreq>>

\* A handler that goes on to the verified side effects whatever it decided.
AfterInsert_Always(r) == [r EXCEPT !.pc = "points"]

\* Where the handler goes once the report is written: on to the verified
\* side effects, or straight to the 200 'flagged for manual review' answer.
AfterInsert(r) ==
    IF r.isVerified THEN [r EXCEPT !.pc = "points"] ELSE Done(r, "flagged")

\* 8. Write cleanup report.  The row's session field is history: the
\* session the report was made from (the table has no such column).
SubmitInsert(p) ==
    /\ InFlight(p, "submit") /\ req[p].pc = "insert"
    /\ cleanup_reports' = Append(cleanup_reports,
          [user_id |-> req[p].user_id,
           location_id |-> req[p].location_id,
           before_image_hash |-> req[p].session.before_image_hash,
           after_image_hash |-> req[p].after_image_hash,
           before_time |-> req[p].session.before_time,
           after_time |-> now,
           verified |-> req[p].isVerified,
           gps_low_confidence |-> req[p].gpsLowConfidence,
           session |-> req[p].session_id])
    /\ Advance(p, AfterInsert([req[p] EXCEPT !.wrote = @ + 1]))
    /\ UNCHANGED <<now, locations, pending_sessions, dirty_reports, points_log,
                   users, notifications, pushes, nextSession, nreq,
                   grid, leaderboard_snapshots>>

\* const points = isReClean ? 15 : 10
CleanupPoints(isReClean) == IF isReClean THEN BonusPoints ELSE BasePoints

CleanupReason(isReClean) ==
    IF isReClean THEN "verified_cleanup_reclean" ELSE "verified_cleanup"

\* Award points: .from('points_log').insert(...).  The row's session field
\* is history, as in cleanup_reports.
SubmitPoints(p) ==
    /\ InFlight(p, "submit") /\ req[p].pc = "points"
    /\ points_log' = Append(points_log,
          [user_id |-> req[p].user_id,
           points |-> CleanupPoints(req[p].isReClean),
           reason |-> CleanupReason(req[p].isReClean),
           location_id |-> req[p].location_id,
           month |-> MonthOf(now),
           session |-> req[p].session_id])
    /\ Advance(p, [req[p] EXCEPT !.pc = "rpc", !.wrote = @ + 1])
    /\ UNCHANGED <<now, locations, pending_sessions, cleanup_reports,
                   dirty_reports, users, notifications, pushes, nextSession, nreq,
                   grid, leaderboard_snapshots>>

\* schema.sql: increment_user_cleanup(uid, pts)
increment_user_cleanup(uid, pts) ==
    [users EXCEPT ![uid] = [total_points |-> @.total_points + pts,
                            cleanups_done |-> @.cleanups_done + 1]]

\* Update user totals: supabase.rpc('increment_user_cleanup', ...)
SubmitRpc(p) ==
    /\ InFlight(p, "submit") /\ req[p].pc = "rpc"
    /\ users' = increment_user_cleanup(req[p].user_id,
                                       CleanupPoints(req[p].isReClean))
    /\ Advance(p, [req[p] EXCEPT !.pc = "status", !.wrote = @ + 1])
    /\ UNCHANGED <<now, locations, pending_sessions, cleanup_reports,
                   dirty_reports, points_log, notifications, pushes, nextSession, nreq,
                   grid, leaderboard_snapshots>>

\* Update location status:
\* .update({ status: 'clean', last_cleaned_at: ... }).eq('id', location_id)
SubmitStatus(p) ==
    /\ InFlight(p, "submit") /\ req[p].pc = "status"
    /\ locations' = [l \in DOMAIN locations |->
                        IF l = req[p].location_id
                        THEN [status |-> "clean", last_cleaned_at |-> now]
                        ELSE locations[l]]
    /\ Advance(p, [req[p] EXCEPT !.pc = "delete", !.wrote = @ + 1])
    /\ UNCHANGED <<now, pending_sessions, cleanup_reports, dirty_reports,
                   points_log, users, notifications, pushes, nextSession, nreq,
                   grid, leaderboard_snapshots>>

\* A handler that answers 'Cleanup verified!' and leaves the session.
SubmitDelete_Keep(p) ==
    /\ InFlight(p, "submit") /\ req[p].pc = "delete"
    /\ Advance(p, Done([req[p] EXCEPT !.wrote = @ + 1], "verified"))
    /\ UNCHANGED <<now, tables, nextSession, nreq>>

\* Remove pending session: .from('pending_sessions').delete().eq('id', session_id),
\* then the 200 'Cleanup verified!' answer.
SubmitDelete(p) ==
    /\ InFlight(p, "submit") /\ req[p].pc = "delete"
    /\ pending_sessions' = {s \in pending_sessions : s.id # req[p].session_id}
    /\ Advance(p, Done([req[p] EXCEPT !.wrote = @ + 1], "verified"))
    /\ UNCHANGED <<now, locations, cleanup_reports, dirty_reports, points_log,
                   users, notifications, pushes, nextSession, nreq,
                   grid, leaderboard_snapshots>>

-----------------------------------------------------------------------------
(* DirtyReportScreen.submitReport and check-dirty-consensus:               *)
(* POST /reports/dirty                                                     *)

ReportRequest(u, loc) ==
    [op |-> "report", pc |-> "existing", result |-> "none",
     user_id |-> u, location_id |-> loc,
     uniqueUsers |-> {},
     \* history: the location's status when the request arrived, and which
     \* of the two tests answered 'Already reported'
     statusAtStart |-> locations[loc].status,
     rejectedAt |-> "none",
     \* history: did the handler's status update change the status to dirty
     transitioned |-> FALSE]

\* A store that finds no report of the day.
ReportedOn_Never(u, loc, day) == day # day

\* .from('dirty_reports').eq('user_id', ...).eq('location_id', ...)
\*   .eq('report_date', todayStr)
ReportedOn(u, loc, day) ==
    \E r \in dirty_reports :
        r.user_id = u /\ r.location_id = loc /\ r.report_date = day

\* The client first looks for a report of its own of today: 'Already reported'.
ReportExisting(p, u, loc) ==
    /\ Free(p)
    /\ nreq < MaxReportRequests
    /\ nreq' = nreq + 1
    /\ LET r == ReportRequest(u, loc)
       IN  Advance(p, IF ReportedOn(u, loc, DateOf(now))
                      THEN Done([r EXCEPT !.rejectedAt = "select"],
                                "AlreadyReportedToday")
                      ELSE [r EXCEPT !.pc = "insert"])
    /\ UNCHANGED <<now, tables, nextSession>>

\* .from('dirty_reports').insert({...}); dirty_reports_user_loc_day_idx turns
\* a second row of the triple into error 23505: 'Already reported'.
ReportInsert(p) ==
    /\ InFlight(p, "report") /\ req[p].pc = "insert"
    /\ LET r == req[p]
           row == [user_id |-> r.user_id, location_id |-> r.location_id,
                   report_date |-> DateOf(now), created_at |-> now]
       IN  IF ReportedOn(r.user_id, r.location_id, DateOf(now))
           THEN /\ Advance(p, Done([r EXCEPT !.rejectedAt = "index"],
                                   "AlreadyReportedToday"))
                /\ UNCHANGED dirty_reports
           ELSE /\ dirty_reports' = dirty_reports \cup {row}
                /\ Advance(p, [r EXCEPT !.pc = "count"])
    /\ UNCHANGED <<now, locations, pending_sessions, cleanup_reports,
                   points_log, users, notifications, pushes, nextSession, nreq,
                   grid, leaderboard_snapshots>>

\* check-dirty-consensus: distinct users who reported in last 24h,
\* .eq('location_id', location_id).gte('created_at', since)
UniqueUsers(loc, t) ==
    {r.user_id : r \in {x \in dirty_reports :
                            /\ x.location_id = loc
                            /\ x.created_at >= t - WindowMinutes}}

\* if (uniqueUsers.size < 3)
BelowThreshold(uniqueUsers) == Cardinality(uniqueUsers) < ConsensusThreshold

\* The edge function counts; below the threshold it answers 'n/3
\* confirmations so far' and the client goes on to its last step.
ConsensusCount(p) ==
    /\ InFlight(p, "report") /\ req[p].pc = "count"
    /\ LET uniqueUsers == UniqueUsers(req[p].location_id, now)
           m == [req[p] EXCEPT !.uniqueUsers = uniqueUsers]
       IN  Advance(p, IF BelowThreshold(uniqueUsers)
                      THEN [m EXCEPT !.pc = "flip", !.result = "Progress"]
                      ELSE [m EXCEPT !.pc = "status"])
    /\ UNCHANGED <<now, tables, nextSession, nreq>>

\* A handler that does not look at the status it has read.
IsAlreadyDirty_Never(status) == status = "dirty" /\ FALSE

\* if (loc?.status === 'dirty')
IsAlreadyDirty(status) == status = "dirty"

\* Threshold reached: the edge function reads the status; 'Already dirty.'
ConsensusStatus(p) ==
    /\ InFlight(p, "report") /\ req[p].pc = "status"
    /\ Advance(p, IF IsAlreadyDirty(locations[req[p].location_id].status)
                  THEN [req[p] EXCEPT !.pc = "flip", !.result = "AlreadyDirty"]
                  ELSE [req[p] EXCEPT !.pc = "update"])
    /\ UNCHANGED <<now, tables, nextSession, nreq>>

\* .from('locations').update({ status: 'dirty' }).eq('id', location_id)
ConsensusUpdate(p) ==
    /\ InFlight(p, "report") /\ req[p].pc = "update"
    /\ locations' = [locations EXCEPT ![req[p].location_id].status = "dirty"]
    /\ Advance(p, [req[p] EXCEPT
                      !.pc = "points",
                      !.transitioned =
                          (locations[req[p].location_id].status # "dirty")])
    /\ UNCHANGED <<now, pending_sessions, cleanup_reports, dirty_reports,
                   points_log, users, notifications, pushes, nextSession, nreq,
                   grid, leaderboard_snapshots>>

\* The order in which rows of several users are written.
UserOrder == <<"u1", "u2", "u3", "u4">>

InSet(S, u) == u \in S

\* Array.from(uniqueUsers).map(...): one +3 row for each reporter
PointsInserts(uniqueUsers, loc, t) ==
    LET list == SelectSeq(UserOrder, LAMBDA u : InSet(uniqueUsers, u))
    IN  [i \in 1..Len(list) |->
            [user_id |-> list[i], points |-> ConfirmationPoints,
             reason |-> "dirty_confirmation", location_id |-> loc,
             month |-> MonthOf(t), session |-> 0]]

\* Award +3 points to all reporters in this consensus window
ConsensusPoints(p) ==
    /\ InFlight(p, "report") /\ req[p].pc = "points"
    /\ points_log' = points_log \o
          PointsInserts(req[p].uniqueUsers, req[p].location_id, now)
    /\ Advance(p, [req[p] EXCEPT !.pc = "notify"])
    /\ UNCHANGED <<now, locations, pending_sessions, cleanup_reports,
                   dirty_reports, users, notifications, pushes, nextSession, nreq,
                   grid, leaderboard_snapshots>>

\* public.guardians joined with users(expo_push_token): the subscriptions
\* and the push tokens are written by screens outside this model and are
\* fixed here.  u4 has registered no device.
Guardians ==
    {[user_id |-> "u3", location_id |-> "l1"],
     [user_id |-> "u4", location_id |-> "l1"],
     [user_id |-> "u4", location_id |-> "l2"]}

expo_push_token(u) == IF u = "u4" THEN "null" ELSE u

\* .from('guardians').eq('location_id', location_id), in UserOrder
GuardiansOf(loc) ==
    SelectSeq(UserOrder,
              LAMBDA u : InSet(Guardians, [user_id |-> u, location_id |-> loc]))

\* A loop that queues a push message for every guardian, token or not.
PushMessages_All(guardians, loc) ==
    [i \in 1..Len(guardians) |->
        [to |-> expo_push_token(guardians[i]), location_id |-> loc]]

\* notifications.push(...) if (token)
PushMessages(guardians, loc) ==
    LET withToken == SelectSeq(guardians, LAMBDA u : expo_push_token(u) # "null")
    IN  [i \in 1..Len(withToken) |->
            [to |-> expo_push_token(withToken[i]), location_id |-> loc]]

\* dbNotifications.push(...)
DbNotifications(guardians, loc) ==
    [i \in 1..Len(guardians) |->
        [user_id |-> guardians[i], location_id |-> loc, read |-> FALSE]]

\* Notify guardians: the guardians are read, the messages are posted to the
\* push service and the notification rows are written; 'Location marked
\* dirty. Guardians notified.'
ConsensusNotify(p) ==
    /\ InFlight(p, "report") /\ req[p].pc = "notify"
    /\ LET guardians == GuardiansOf(req[p].location_id)
       IN  /\ pushes' = pushes \o PushMessages(guardians, req[p].location_id)
           /\ notifications' =
                 notifications \o DbNotifications(guardians, req[p].location_id)
    /\ Advance(p, [req[p] EXCEPT !.pc = "flip", !.result = "MarkedDirty"])
    /\ UNCHANGED <<now, locations, pending_sessions, cleanup_reports,
                   dirty_reports, points_log, users, nextSession, nreq,
                   grid, leaderboard_snapshots>>

\* If location was clean, flip it to pending:
\* .update({ status: 'pending' }).eq('id', locationId).eq('status', 'clean')
FlipToPending(loc) ==
    [locations EXCEPT ![loc].status = IF @ = "clean" THEN "pending" ELSE @]

\* The client's last step, after the edge function has answered.
ReportFlip(p) ==
    /\ InFlight(p, "report") /\ req[p].pc = "flip"
    /\ locations' = FlipToPending(req[p].location_id)
    /\ Advance(p, Done(req[p], req[p].result))
    /\ UNCHANGED <<now, pending_sessions, cleanup_reports, dirty_reports,
                   points_log, users, notifications, pushes, nextSession, nreq,
                   grid, leaderboard_snapshots>>

\* The edge function is ended by its runtime (a crash, a time limit) after
\* the status update and before the +3 rows or before the notifications.
\* functions.invoke hands the failure back as a value the client does not
\* read, and the client goes on to its last step.
ConsensusStop(p) ==
    /\ InFlight(p, "report") /\ req[p].pc \in {"points", "notify"}
    /\ Advance(p, [req[p] EXCEPT !.pc = "flip", !.result = "Stopped"])
    /\ UNCHANGED <<now, tables, nextSession, nreq>>

\* The points_log insert fails: the handler does not read the error of the
\* insert and goes on to notify the guardians.
ConsensusPointsFail(p) ==
    /\ InFlight(p, "report") /\ req[p].pc = "points"
    /\ Advance(p, [req[p] EXCEPT !.pc = "notify"])
    /\ UNCHANGED <<now, tables, nextSession, nreq>>

-----------------------------------------------------------------------------
(* A client's own insert into pending_sessions, which the policy           *)
(* pending_sessions_insert (auth.uid() = user_id) admits:                  *)
(* SubmitCleanupScreen.confirmBeforeAndCreateSession sends no before_time, *)
(* another client of the same API may send one                             *)

DirectRequest(u, sid) ==
    [op |-> "direct", pc |-> "insert", result |-> "none",
     user_id |-> u, session_id |-> sid]

\* before_time TIMESTAMPTZ NOT NULL DEFAULT now(): the value the row gets
\* when the insert names none (<<>>) or names one (<<t>>).
BeforeTimeColumn(given) == IF given = <<>> THEN now ELSE given[1]

\* .from('pending_sessions').insert({ user_id, location_id, before_image,
\* before_image_hash, gps_lat, gps_lng, gps_accuracy }), one store call
DirectInsert(p, u, loc, h, lat, lng, acc, given) ==
    /\ Free(p)
    /\ nreq < MaxRequests
    /\ nreq' = nreq + 1
    /\ nextSession + Cardinality({q \in Procs : InFlight(q, "open")}) <= MaxSessions
    /\ pending_sessions' = pending_sessions \cup
          {[id |-> nextSession, user_id |-> u, location_id |-> loc,
            before_image_hash |-> h, before_time |-> BeforeTimeColumn(given),
            gps_lat |-> lat, gps_lng |-> lng, gps_accuracy |-> acc]}
    /\ nextSession' = nextSession + 1
    /\ Advance(p, Done(DirectRequest(u, nextSession), "created"))
    /\ UNCHANGED <<now, locations, cleanup_reports, dirty_reports, points_log,
                   users, notifications, pushes, grid,
                   leaderboard_snapshots>>

-----------------------------------------------------------------------------
(* MapScreen 'Report Here as Dirty' and                                    *)
(* SubmitCleanupScreen.confirmBeforeAndCreateSession: the client resolves  *)
(* the location of the grid cell it stands in, or creates it               *)

ClaimRequest(c) ==
    [op |-> "claim", pc |-> "select", result |-> "none",
     cell |-> c, locationId |-> 0]

\* .from('locations').select('id').eq('lat_grid', ...).eq('lng_grid', ...)
GridRows(c) == {r \in grid : r.cell = c}

\* The client looks the cell up: if (existing) locationId = existing.id
ClaimSelect(p, c) ==
    /\ Free(p)
    /\ nreq < MaxRequests
    /\ nreq' = nreq + 1
    /\ LET r == ClaimRequest(c)
           existing == GridRows(c)
       IN  Advance(p, IF existing # {}
                      THEN Done([r EXCEPT !.locationId =
                                    (CHOOSE x \in existing : TRUE).id],
                                "resolved")
                      ELSE [r EXCEPT !.pc = "insert"])
    /\ UNCHANGED <<now, tables, nextSession>>

\* .from('locations').insert({ lat, lng, lat_grid, lng_grid, status:
\* 'pending' }).select('id').single(); locations_grid_idx turns a second row
\* of the cell into an error: 'Could not create location.'
ClaimInsert(p) ==
    /\ InFlight(p, "claim") /\ req[p].pc = "insert"
    /\ IF GridRows(req[p].cell) # {}
       THEN /\ Advance(p, Done(req[p], "CouldNotCreate"))
            /\ UNCHANGED grid
       ELSE LET id == Cardinality(grid) + 1
            IN  /\ grid' = grid \cup {[cell |-> req[p].cell, id |-> id,
                                       status |-> "pending"]}
                /\ Advance(p, Done([req[p] EXCEPT !.locationId = id], "created"))
    /\ UNCHANGED <<now, locations, pending_sessions, cleanup_reports,
                   dirty_reports, points_log, users, notifications, pushes,
                   leaderboard_snapshots, nextSession, nreq>>

-----------------------------------------------------------------------------
(* SubmitCleanupScreen.submitReport: the shipped client writes the cleanup *)
(* to the tables itself, under the row level security policies             *)

ClientRequest(u, sid, h) ==
    [op |-> "client", pc |-> "fetch", result |-> "none",
     user_id |-> u, session_id |-> sid, after_image_hash |-> h,
     session |-> NoSession,
     currentUser |-> [total_points |-> 0, cleanups_done |-> 0]]

\* pending_sessions_select: USING (auth.uid() = user_id), and
\* .from('pending_sessions').select('*').eq('id', sessionId).single()
ClientSession(sid, u) ==
    {s \in pending_sessions : s.id = sid /\ s.user_id = u}

\* Fetch pending session; none: 'Session not found. Please start over.'
ClientFetch(p, u, sid, h) ==
    /\ Free(p)
    /\ nreq < MaxRequests
    /\ nreq' = nreq + 1
    /\ LET r == ClientRequest(u, sid, h)
           found == ClientSession(sid, u)
       IN  Advance(p, IF found = {} THEN Done(r, "SessionNotFound")
                      ELSE [r EXCEPT !.pc = "insert",
                                     !.session = CHOOSE x \in found : TRUE])
    /\ UNCHANGED <<now, tables, nextSession>>

\* cleanup_reports_insert: WITH CHECK (auth.uid() = user_id)
cleanup_reports_insert(uid, row) == row.user_id = uid

\* Insert cleanup report directly: verified: true, gps_low_confidence: false.
\* locationId is the location the client opened the session for.
ClientInsert(p) ==
    /\ InFlight(p, "client") /\ req[p].pc = "insert"
    /\ LET row == [user_id |-> req[p].user_id,
                   location_id |-> req[p].session.location_id,
                   before_image_hash |-> req[p].session.before_image_hash,
                   after_image_hash |-> req[p].after_image_hash,
                   before_time |-> req[p].session.before_time,
                   after_time |-> now,
                   verified |-> TRUE,
                   gps_low_confidence |-> FALSE,
                   session |-> req[p].session_id]
       IN  IF cleanup_reports_insert(req[p].user_id, row)
           THEN /\ cleanup_reports' = Append(cleanup_reports, row)
                /\ Advance(p, [req[p] EXCEPT !.pc = "read"])
           ELSE /\ UNCHANGED cleanup_reports
                /\ Advance(p, Done(req[p], "SubmissionFailed"))
    /\ UNCHANGED <<now, locations, pending_sessions, dirty_reports, points_log,
                   users, notifications, pushes, grid, leaderboard_snapshots,
                   nextSession, nreq>>

\* .from('users').select('total_points, cleanups_done').eq('id', user.id);
\* the select of the active drives follows and finds none
ClientRead(p) ==
    /\ InFlight(p, "client") /\ req[p].pc = "read"
    /\ Advance(p, [req[p] EXCEPT !.pc = "points",
                                 !.currentUser = users[req[p].user_id]])
    /\ UNCHANGED <<now, tables, nextSession, nreq>>

\* points_log has a SELECT policy only: an insert by an authenticated client
\* is refused, and the client does not look at the error.
points_log_insert(uid, row) == FALSE

\* await Promise.all(pointsOps): the update of the user's totals from the
\* values read before, and the points_log insert
ClientPoints(p) ==
    /\ InFlight(p, "client") /\ req[p].pc = "points"
    /\ LET row == [user_id |-> req[p].user_id, points |-> BasePoints,
                   reason |-> "verified_cleanup",
                   location_id |-> req[p].session.location_id,
                   month |-> MonthOf(now), session |-> req[p].session_id]
       IN  /\ users' = [users EXCEPT ![req[p].user_id] =
                          [total_points |-> req[p].currentUser.total_points
                                            + BasePoints,
                           cleanups_done |-> req[p].currentUser.cleanups_done
                                             + 1]]
           /\ points_log' = IF points_log_insert(req[p].user_id, row)
                            THEN Append(points_log, row) ELSE points_log
    /\ Advance(p, [req[p] EXCEPT !.pc = "status"])
    /\ UNCHANGED <<now, locations, pending_sessions, cleanup_reports,
                   dirty_reports, notifications, pushes, grid,
                   leaderboard_snapshots, nextSession, nreq>>

\* Mark location clean (policy locations_auth_update)
ClientStatus(p) ==
    /\ InFlight(p, "client") /\ req[p].pc = "status"
    /\ locations' = [locations EXCEPT ![req[p].session.location_id] =
                        [status |-> "clean", last_cleaned_at |-> now]]
    /\ Advance(p, [req[p] EXCEPT !.pc = "delete"])
    /\ UNCHANGED <<now, pending_sessions, cleanup_reports, dirty_reports,
                   points_log, users, notifications, pushes, grid,
                   leaderboard_snapshots, nextSession, nreq>>

\* Clean up the pending session; 'Cleanup verified! +10 points earned.'
ClientDelete(p) ==
    /\ InFlight(p, "client") /\ req[p].pc = "delete"
    /\ pending_sessions' = {s \in pending_sessions : s.id # req[p].session_id}
    /\ Advance(p, Done(req[p], "verified"))
    /\ UNCHANGED <<now, locations, cleanup_reports, dirty_reports, points_log,
                   users, notifications, pushes, grid, leaderboard_snapshots,
                   nextSession, nreq>>

-----------------------------------------------------------------------------
(* archive-monthly-leaderboard: the cron call at the start of each month *)

\* .slice(0, 100): the snapshot holds the top 100
SnapshotSize == 100

ArchiveRequest ==
    [op |-> "archive", pc |-> "select", result |-> "none",
     prevMonth |-> 0, snapshot |-> {}]

\* new Date(now.getFullYear(), now.getMonth() - 1, 1).toISOString().slice(0, 7)
PrevMonth(t) == MonthOf(t) - 1

\* A select that leaves the month filter out.
MonthRows_All(month) == points_log

\* .from('points_log').select('user_id, points').eq('month', prevMonth)
MonthRows(month) == SelectSeq(points_log, LAMBDA e : e.month = month)

\* for (const row of rows) map.set(row.user_id, (map.get(row.user_id) ?? 0) + row.points)
RECURSIVE Aggregate(_, _)
Aggregate(rows, map) ==
    IF rows = <<>> THEN map
    ELSE Aggregate(Tail(rows),
                   [map EXCEPT ![Head(rows).user_id] = @ + Head(rows).points])

\* The keys of the map, and where in the rows a key was set first (a Map
\* iterates in insertion order).
MapKeys(rows) == {rows[i].user_id : i \in DOMAIN rows}

FirstRow(rows, u) ==
    CHOOSE i \in DOMAIN rows :
        rows[i].user_id = u /\ \A j \in 1..(i - 1) : rows[j].user_id # u

\* Array.from(map.entries()).sort((a, b) => b[1] - a[1]): the place of u in
\* the sorted entries; the sort is stable.
RankOf(rows, map, u) ==
    1 + Cardinality({v \in MapKeys(rows) :
                        \/ map[v] > map[u]
                        \/ map[v] = map[u] /\ FirstRow(rows, v) < FirstRow(rows, u)})

\* .slice(0, 100).map(([user_id, points], i) => ({ month, rank: i + 1, ... }))
Snapshot(rows, month, t) ==
    LET map == Aggregate(rows, [u \in AllUsers |-> 0])
    IN  {[month |-> month, rank |-> RankOf(rows, map, u), user_id |-> u,
          points |-> map[u], archived_at |-> t] :
            u \in {k \in MapKeys(rows) : RankOf(rows, map, k) <= SnapshotSize}}

\* The call arrives: a wrong x-cron-secret is answered 403; the handler
\* selects the previous month's rows, answers 'No data for previous month.'
\* when there are none, and builds the snapshot.
ArchiveSelect(p, secret) ==
    /\ Free(p)
    /\ nreq < MaxReportRequests
    /\ nreq' = nreq + 1
    /\ LET prevMonth == PrevMonth(now)
           rows == MonthRows(prevMonth)
           r == [ArchiveRequest EXCEPT !.prevMonth = prevMonth]
       IN  Advance(p, IF ~secret THEN Done(ArchiveRequest, "Forbidden")
                      ELSE IF rows = <<>> THEN Done(r, "NoData")
                      ELSE [r EXCEPT !.pc = "insert",
                                     !.snapshot = Snapshot(rows, prevMonth, now)])
    /\ UNCHANGED <<now, tables, nextSession>>

\* .from('leaderboard_snapshots').insert(snapshot)
ArchiveInsert(p) ==
    /\ InFlight(p, "archive") /\ req[p].pc = "insert"
    /\ leaderboard_snapshots' = leaderboard_snapshots \cup req[p].snapshot
    /\ Advance(p, Done(req[p], "Archived"))
    /\ UNCHANGED <<now, locations, pending_sessions, cleanup_reports,
                   dirty_reports, points_log, users, notifications, pushes,
                   grid, nextSession, nreq>>

-----------------------------------------------------------------------------
(* The server clock *)

\* The clock moves on to a later instant of the set.
Tick(instants) ==
    /\ \E t \in instants : t > now /\ now' = t
    /\ UNCHANGED <<tables, req, nextSession, nreq>>

-----------------------------------------------------------------------------
(* The cleanup pipeline: open and evaluate requests of two clients *)

OpenUsers == {"u1"}
SubmitUsers == {"u1", "u2"}
CleanupLocs == {"l1"}
\* The fingerprints a client can submit.  Fingerprints are interchangeable,
\* so a photo never seen before is given the first fingerprint that no row
\* and no request in flight carries.
HashOrder == <<"h1", "h2", "h3">>

UsedHashes ==
    {s.before_image_hash : s \in pending_sessions}
    \cup {cleanup_reports[i].before_image_hash : i \in DOMAIN cleanup_reports}
    \cup {cleanup_reports[i].after_image_hash : i \in DOMAIN cleanup_reports}
    \cup {req[p].before_image_hash : p \in {q \in Procs : req[q].op = "open"}}
    \cup {req[p].after_image_hash :
             p \in {q \in Procs : req[q].op \in {"submit", "client"}}}

Hashes ==
    {HashOrder[i] : i \in {k \in 1..Len(HashOrder) :
        \/ HashOrder[k] \in UsedHashes
        \/ \A j \in 1..(k - 1) : HashOrder[j] \in UsedHashes}}
\* Latitudes of the fixes, in metres of arc; every fix has longitude 0.
OpenLats == {0}
AfterLats == {0, 500, 501}
OpenAccuracies == {50}
AfterAccuracies == {50, 51}
CleanupInstants == {0, 120, 121}

InitTables ==
    /\ now = 0
    /\ locations = [l \in AllLocs |-> [status |-> "pending", last_cleaned_at |-> -1]]
    /\ pending_sessions = {}
    /\ cleanup_reports = <<>>
    /\ dirty_reports = {}
    /\ points_log = <<>>
    /\ users = [u \in AllUsers |-> [total_points |-> 0, cleanups_done |-> 0]]
    /\ notifications = <<>>
    /\ pushes = <<>>
    /\ grid = {}
    /\ leaderboard_snapshots = {}
    /\ req = [p \in Procs |-> Idle]
    /\ nextSession = 1
    /\ nreq = 0

Init == InitTables

\* The tables once u1 has had one cleanup of l1 verified at instant 0 (a
\* state SpecRace reaches from Init: see CleanedOnce).
AfterOneCleanup ==
    /\ locations = [l \in AllLocs |->
                      IF l = "l1" THEN [status |-> "clean", last_cleaned_at |-> 0]
                      ELSE [status |-> "pending", last_cleaned_at |-> -1]]
    /\ pending_sessions = {}
    /\ cleanup_reports =
          <<[user_id |-> "u1", location_id |-> "l1",
             before_image_hash |-> "h1", after_image_hash |-> "h2",
             before_time |-> 0, after_time |-> 0, verified |-> TRUE,
             gps_low_confidence |-> FALSE, session |-> 1]>>
    /\ dirty_reports = {}
    /\ points_log =
          <<[user_id |-> "u1", points |-> BasePoints, reason |-> "verified_cleanup",
             location_id |-> "l1", month |-> 0, session |-> 1]>>
    /\ users = [u \in AllUsers |->
                  IF u = "u1" THEN [total_points |-> BasePoints, cleanups_done |-> 1]
                  ELSE [total_points |-> 0, cleanups_done |-> 0]]
    /\ notifications = <<>>
    /\ pushes = <<>>
    /\ grid = {}
    /\ leaderboard_snapshots = {}

InitCleaned ==
    /\ AfterOneCleanup
    /\ now = 0
    /\ req = [p \in Procs |-> Idle]
    /\ nextSession = 2
    /\ nreq = 0

\* A location nobody has cleaned yet, or one cleaned once.
InitEither == Init \/ InitCleaned

\* The requests of the cleanup pipeline, served by the slots P, about the
\* locations locs, with the fixes and accuracies given.
PipelineStep(P, locs, openAccs, afterLats, afterAccs) ==
    \/ \E p \in P, u \in OpenUsers, loc \in locs, h \in Hashes,
          lat \in OpenLats, acc \in openAccs :
          OpenDup(p, u, loc, h, lat, 0, acc)
    \/ \E p \in P : OpenInsert(p)
    \/ \E p \in P, u \in SubmitUsers, sid \in 1..MaxSessions,
          loc \in locs, h \in Hashes, lat \in afterLats,
          acc \in afterAccs :
          SubmitFetch(p, u, sid, loc, h, lat, 0, acc)
    \/ \E p \in P : SubmitCheck(p)
    \/ \E p \in P, diff \in DiffOutcomes : SubmitDup(p, diff)
    \/ \E p \in P : SubmitPrev(p)
    \/ \E p \in P : SubmitInsert(p)
    \/ \E p \in P : SubmitPoints(p)
    \/ \E p \in P : SubmitRpc(p)
    \/ \E p \in P : SubmitStatus(p)
    \/ \E p \in P : SubmitDelete(p)
    \/ \E p \in P : Return(p)

\* The requests of the cleanup pipeline about one location.
CleanupStep(P, openAccs, afterLats, afterAccs) ==
    PipelineStep(P, CleanupLocs, openAccs, afterLats, afterAccs)

\* One client at a time, every fix, accuracy and instant.
NextCleanup ==
    \/ Tick(CleanupInstants)
    \/ CleanupStep({"p1"}, OpenAccuracies, AfterLats, AfterAccuracies)

SpecCleanup == InitEither /\ [][NextCleanup]_vars

\* Two requests in flight, at one instant and from one place.
NextRace ==
    CleanupStep(Procs, OpenAccuracies, {0}, AfterAccuracies)

SpecRace == Init /\ [][NextRace]_vars

\* The accuracies a session can be opened with when the trust decision is
\* examined: at the threshold and one metre past it.
SessionAccuracies == {50, 51}

\* One client at a time, at one instant and from one place, with every
\* pair of accuracies.
NextTrust ==
    CleanupStep({"p1"}, SessionAccuracies, {0}, AfterAccuracies)

SpecTrust == Init /\ [][NextTrust]_vars

\* One client at a time, at one instant and from one place, with sessions
\* and submissions that name either location.
NextTarget ==
    PipelineStep({"p1"}, AllLocs, OpenAccuracies, {0}, {50})

SpecTarget == Init /\ [][NextTarget]_vars

-----------------------------------------------------------------------------
(* Dirty reports and consensus: report requests of four users about one    *)
(* location                                                                *)

ReportUsers == {"u1", "u2", "u3", "u4"}
ReportLocs == {"l1"}
\* A day, the same minute of the next day, and one minute later.
ConsensusInstants == {0, 1440, 1441}

ConsensusStep(P) ==
    \/ \E p \in P, u \in ReportUsers, loc \in ReportLocs :
          ReportExisting(p, u, loc)
    \/ \E p \in P : ReportInsert(p)
    \/ \E p \in P : ConsensusCount(p)
    \/ \E p \in P : ConsensusStatus(p)
    \/ \E p \in P : ConsensusUpdate(p)
    \/ \E p \in P : ConsensusPoints(p)
    \/ \E p \in P : ConsensusNotify(p)
    \/ \E p \in P : ReportFlip(p)
    \/ \E p \in P : Return(p)

\* One client at a time, over two days.
NextConsensus ==
    \/ Tick(ConsensusInstants)
    \/ ConsensusStep({"p1"})

SpecConsensus == InitEither /\ [][NextConsensus]_vars

\* Two report requests in flight, on one day and more than a day later.
RaceInstants == {0, 1441}

NextConsensusRace ==
    \/ Tick(RaceInstants)
    \/ ConsensusStep(Procs)

SpecConsensusRace == InitEither /\ [][NextConsensusRace]_vars

-----------------------------------------------------------------------------
(* Sessions opened through the edge function and by direct insert *)

\* The before_time values an insert can carry.
GivenTimes == {<<>>, <<0>>, <<121>>}

\* One client at a time, from one place, with sessions of either origin.
NextDirect ==
    \/ Tick(CleanupInstants)
    \/ CleanupStep({"p1"}, OpenAccuracies, {0}, {50})
    \/ \E p \in {"p1"}, u \in OpenUsers, loc \in CleanupLocs, h \in Hashes,
          lat \in OpenLats, acc \in OpenAccuracies, given \in GivenTimes :
          DirectInsert(p, u, loc, h, lat, 0, acc, given)

SpecDirect == Init /\ [][NextDirect]_vars

-----------------------------------------------------------------------------
(* Location claims: two clients standing in never-seen grid cells *)

Cells == {"c1", "c2"}

NextClaim ==
    \/ \E p \in Procs, c \in Cells : ClaimSelect(p, c)
    \/ \E p \in Procs : ClaimInsert(p)
    \/ \E p \in Procs : Return(p)

SpecClaim == Init /\ [][NextClaim]_vars

-----------------------------------------------------------------------------
(* Decay and cleaning: a location that consensus has made dirty is cleaned *)
(* and reported again                                                      *)

\* The tables once u1, u2 and u3 have reported l1 at instant 0, one after
\* the other, and the third call has made l1 dirty (a state SpecConsensus
\* reaches from Init: see DirtiedOnce).
AfterConsensus ==
    /\ locations = [l \in AllLocs |->
                      [status |-> IF l = "l1" THEN "dirty" ELSE "pending",
                       last_cleaned_at |-> -1]]
    /\ pending_sessions = {}
    /\ cleanup_reports = <<>>
    /\ dirty_reports =
          {[user_id |-> u, location_id |-> "l1", report_date |-> 0,
            created_at |-> 0] : u \in {"u1", "u2", "u3"}}
    /\ points_log = PointsInserts({"u1", "u2", "u3"}, "l1", 0)
    /\ users = [u \in AllUsers |-> [total_points |-> 0, cleanups_done |-> 0]]
    /\ notifications = DbNotifications(GuardiansOf("l1"), "l1")
    /\ pushes = PushMessages(GuardiansOf("l1"), "l1")
    /\ grid = {}
    /\ leaderboard_snapshots = {}

InitDirty ==
    /\ AfterConsensus
    /\ now = 0
    /\ req = [p \in Procs |-> Idle]
    /\ nextSession = 1
    /\ nreq = 0

\* The session's minute and the last minute of its window.
DecayInstants == {0, 120}

\* One request at a time: cleanups and dirty reports of one location.
NextDecay ==
    \/ Tick(DecayInstants)
    \/ CleanupStep({"p1"}, OpenAccuracies, {0}, {50})
    \/ ConsensusStep({"p1"})

SpecDecay == InitDirty /\ [][NextDecay]_vars

-----------------------------------------------------------------------------
(* Failures of the consensus check: report requests of one day, with a     *)
(* handler that can stop or lose its points insert                         *)

NextRecovery ==
    \/ ConsensusStep({"p1"})
    \/ ConsensusStop("p1")
    \/ ConsensusPointsFail("p1")

\* Report calls keep arriving and a handler that has not failed goes on;
\* nothing forces a failure.
SpecRecovery ==
    Init /\ [][NextRecovery]_vars /\ WF_vars(ConsensusStep({"p1"}))

-----------------------------------------------------------------------------
(* The shipped client: sessions inserted directly and cleanups written by  *)
(* the client, beside the edge functions                                   *)

ClientStep(P) ==
    \/ \E p \in P, u \in OpenUsers, loc \in CleanupLocs, h \in Hashes,
          lat \in OpenLats, acc \in OpenAccuracies :
          DirectInsert(p, u, loc, h, lat, 0, acc, <<>>)
    \/ \E p \in P, u \in SubmitUsers, sid \in 1..MaxSessions, h \in Hashes :
          ClientFetch(p, u, sid, h)
    \/ \E p \in P : ClientInsert(p)
    \/ \E p \in P : ClientRead(p)
    \/ \E p \in P : ClientPoints(p)
    \/ \E p \in P : ClientStatus(p)
    \/ \E p \in P : ClientDelete(p)

\* One request at a time, from one place.
NextClient ==
    \/ Tick(CleanupInstants)
    \/ CleanupStep({"p1"}, OpenAccuracies, {0}, {50})
    \/ ClientStep({"p1"})

SpecClient == Init /\ [][NextClient]_vars

-----------------------------------------------------------------------------
(* The monthly archive: dirty reports of three months and the cron call *)

\* The first minute of three consecutive months.
ArchiveInstants == {0, 30 * 1440, 60 * 1440}

NextArchive ==
    \/ Tick(ArchiveInstants)
    \/ ConsensusStep({"p1"})
    \/ \E secret \in BOOLEAN : ArchiveSelect("p1", secret)
    \/ ArchiveInsert("p1")

SpecArchive == InitEither /\ [][NextArchive]_vars

-----------------------------------------------------------------------------
(* Properties *)

\* The state InitEither starts from is one the cleanup pipeline reaches.
CleanedOnce == AfterOneCleanup /\ now = 0 /\ nextSession = 2

SubmitDone(p) == req[p].op = "submit" /\ req[p].pc = "done"

\* A cleanup submission that found its session and has been answered.
Evaluated(p) == SubmitDone(p) /\ req[p].result # "NotFound"

\* Minutes between the session's before_time and the time window check.
ElapsedOf(r) == r.checkedAt - r.session.before_time

\* Metres between the session's fix and the after fix.
ApartOf(r) ==
    IF r.after_gps_lat >= r.session.gps_lat
    THEN r.after_gps_lat - r.session.gps_lat
    ELSE r.session.gps_lat - r.after_gps_lat

ReportsOf(sid) ==
    Cardinality({i \in DOMAIN cleanup_reports : cleanup_reports[i].session = sid})

VerifiedReportsOf(sid) ==
    Cardinality({i \in DOMAIN cleanup_reports :
                    cleanup_reports[i].session = sid /\ cleanup_reports[i].verified})

AwardsOf(sid) ==
    Cardinality({i \in DOMAIN points_log : points_log[i].session = sid})

\* C1: a session is consumed exactly once, also by concurrent submissions:
\* at most one verified CleanupReport and at most one points award result
\* from one session.
C1_ConsumeExactlyOnce ==
    \A sid \in 1..MaxSessions : AwardsOf(sid) <= 1 /\ VerifiedReportsOf(sid) <= 1

\* C2: once an evaluation has persisted a CleanupReport for a session,
\* verified or flagged, the session is gone, and no session yields more than
\* one CleanupReport.
C2_NeverMatchedTwice ==
    /\ \A p \in Procs :
          SubmitDone(p) /\ req[p].result \in {"verified", "flagged"}
             => \A s \in pending_sessions : s.id # req[p].session_id
    /\ \A sid \in 1..MaxSessions : ReportsOf(sid) <= 1

\* C3: open with a fingerprint that report history holds, in the before or
\* the after role, is answered DuplicateEvidence and creates no session.
C3_OpenRejectsHistory ==
    \A p \in Procs :
        req[p].op = "open" /\ req[p].pc = "done" /\ req[p].inHistory
           => req[p].result = "DuplicateEvidence" /\ req[p].session_id = 0

\* C4, as claimed: an evaluation whose after fingerprint is in report
\* history is answered DuplicateEvidence and persists nothing, whatever the
\* elapsed time and the distance.
C4_DuplicateFirst ==
    \A p \in Procs :
        Evaluated(p) /\ req[p].inHistory
           => req[p].result = "DuplicateEvidence" /\ req[p].wrote = 0

\* C4, amended: an evaluation whose after fingerprint is in report history
\* persists nothing, and it is answered DuplicateEvidence when the elapsed
\* time is at most 120 minutes and the distance at most 500 m; the time
\* window and the distance are checked first, so over 120 minutes the answer
\* is TimeWindowExceeded and otherwise over 500 m it is GeoMismatch.
C4_DuplicateAfterTimeAndGeo ==
    \A p \in Procs :
        Evaluated(p) /\ req[p].inHistory
           => /\ req[p].wrote = 0
              /\ req[p].result =
                    IF ElapsedOf(req[p]) > MaxElapsedMin THEN "TimeWindowExceeded"
                    ELSE IF ApartOf(req[p]) > MaxDistance THEN "GeoMismatch"
                    ELSE "DuplicateEvidence"

C4_Witness ==
    \E p \in Procs :
        /\ Evaluated(p) /\ req[p].inHistory
        /\ req[p].result = "DuplicateEvidence"
        /\ ElapsedOf(req[p]) = MaxElapsedMin /\ ApartOf(req[p]) = MaxDistance

C7_StatusWriters ==
    [][\A l \in AllLocs :
          locations'[l].status # locations[l].status
             => \/ /\ locations'[l].status = "clean"
                   /\ \E p \in Procs :
                         /\ req[p].op = "submit" /\ req[p].pc = "status"
                         /\ req[p].isVerified /\ req[p].location_id = l
                \/ /\ locations'[l].status = "dirty"
                   /\ \E p \in Procs :
                         /\ req[p].op = "report" /\ req[p].pc = "update"
                         /\ Cardinality(req[p].uniqueUsers) >= ConsensusThreshold
                         /\ req[p].location_id = l]_vars

\* The users with a DirtyReport for l in the 24 hours up to t.
DistinctReporters(l, t) ==
    {u \in AllUsers :
        \E r \in dirty_reports :
            r.user_id = u /\ r.location_id = l /\ t - r.created_at <= WindowMinutes}

ConfirmationsOf(u, l) ==
    Cardinality({i \in DOMAIN points_log :
                    /\ points_log[i].user_id = u
                    /\ points_log[i].location_id = l
                    /\ points_log[i].reason = "dirty_confirmation"})

NotificationsOf(u, l) ==
    Cardinality({i \in DOMAIN notifications :
                    notifications[i].user_id = u /\ notifications[i].location_id = l})

PushesOf(u, l) ==
    Cardinality({i \in DOMAIN pushes :
                    /\ pushes[i].to = expo_push_token(u)
                    /\ pushes[i].location_id = l})

\* C8: a report call that finds 3 or more distinct reporters in the trailing
\* 24 hours and the location not dirty makes the location dirty and appends
\* exactly one +3 dirty_confirmation entry for each of them; while fewer
\* than 3 distinct users have reported in the window no status changes and
\* no ledger entry is appended.
C8_ThresholdTransition ==
    /\ [](\A p \in Procs :
            /\ req[p].op = "report" /\ req[p].pc = "done"
            /\ Cardinality(req[p].uniqueUsers) >= ConsensusThreshold
            /\ req[p].statusAtStart # "dirty"
            => /\ locations[req[p].location_id].status = "dirty"
               /\ \A u \in AllUsers :
                     ConfirmationsOf(u, req[p].location_id) =
                        IF u \in req[p].uniqueUsers THEN 1 ELSE 0)
    /\ [][\A l \in AllLocs :
            Cardinality(DistinctReporters(l, now)) < ConsensusThreshold
               => /\ locations'[l].status = locations[l].status
                  /\ points_log' = points_log]_vars

\* C9: report calls that cross the threshold together apply the transition
\* once: no reporter gets the +3 twice for the location and no guardian is
\* notified twice.  (No cleanup runs in SpecConsensusRace, so a location can
\* become dirty once.)
C9_TransitionOnce ==
    \A l \in AllLocs, u \in AllUsers :
        /\ ConfirmationsOf(u, l) <= 1
        /\ NotificationsOf(u, l) <= 1
        /\ PushesOf(u, l) <= 1

\* C10: a report call that arrives while the location is dirty changes no
\* status, appends no ledger entry, posts no push message and writes no
\* Notification, and it is never answered as a new transition.
C10_DirtyIsNoOp ==
    /\ [](\A p \in Procs :
            /\ req[p].op = "report" /\ req[p].pc = "done"
            /\ req[p].statusAtStart = "dirty"
            => req[p].result \in {"AlreadyDirty", "Progress", "AlreadyReportedToday"})
    /\ [][\A p \in Procs :
            /\ req[p].op = "report" /\ req[p].statusAtStart = "dirty"
            /\ req'[p] # req[p]
            => /\ locations' = locations
               /\ points_log' = points_log
               /\ notifications' = notifications
               /\ pushes' = pushes]_vars

\* A fourth distinct user reports a dirty location.
C10_Witness ==
    \E p \in Procs :
        /\ req[p].op = "report" /\ req[p].pc = "done"
        /\ req[p].statusAtStart = "dirty"
        /\ req[p].result = "AlreadyDirty"
        /\ Cardinality(req[p].uniqueUsers) = ConsensusThreshold + 1

\* The rows of dirty_reports for a (user, location, day) triple.
RowsOfDay(u, l, day) ==
    {r \in dirty_reports :
        r.user_id = u /\ r.location_id = l /\ r.report_date = day}

\* C11: a report for a (user, location, day) triple that already has a
\* DirtyReport, whether it arrives after the first report or while the first
\* is being served, is answered AlreadyReportedToday, writes no DirtyReport
\* and leaves the location's distinct reporters as they were; no triple ever
\* has two DirtyReports.
C11_OneReportPerDay ==
    /\ [](\A u \in AllUsers, l \in AllLocs, d \in 0..DateOf(now) :
            Cardinality(RowsOfDay(u, l, d)) <= 1)
    /\ [][\A p \in Procs :
            /\ req'[p] # req[p]
            /\ req'[p].op = "report"
            /\ req[p].op = "idle" \/ req[p].pc = "insert"
            /\ RowsOfDay(req'[p].user_id, req'[p].location_id, DateOf(now)) # {}
            => /\ req'[p].pc = "done"
               /\ req'[p].result = "AlreadyReportedToday"
               /\ dirty_reports' = dirty_reports
               /\ \A l \in AllLocs :
                     DistinctReporters(l, now)' = DistinctReporters(l, now)]_vars

\* Two reports of one user for one location were in flight together, and the
\* unique index turned the second away.
C11_Witness ==
    \E p, q \in Procs :
        /\ p # q
        /\ req[p].op = "report" /\ req[q].op = "report"
        /\ req[p].user_id = req[q].user_id
        /\ req[p].location_id = req[q].location_id
        /\ req[p].pc = "done" /\ req[p].result = "AlreadyReportedToday"
        /\ req[p].rejectedAt = "index"
        /\ req[q].pc = "count"

Subscribed(u, l) == [user_id |-> u, location_id |-> l] \in Guardians

HasToken(u) == expo_push_token(u) # "null"

\* The handler p takes its notify step.
NotifyStep(p) ==
    /\ req[p].op = "report" /\ req[p].pc = "notify"
    /\ req'[p] # req[p]

\* Notification records and push messages are written by the notify step of
\* a consensus check that has set the location dirty, and by nothing else.
OnlyNotifySteps ==
    notifications' # notifications \/ pushes' # pushes
       => \E p \in Procs :
             /\ NotifyStep(p)
             /\ locations[req[p].location_id].status = "dirty"

EntriesOf(sid) ==
    {i \in DOMAIN points_log : points_log[i].session = sid}

\* C13: an evaluation that ends verified was made within 120 minutes and
\* 500 m of its session, with both accuracies at most 50 m and a fingerprint
\* that history did not hold; when it answers, exactly one ledger entry has
\* been appended for it, tagged with the month of the evaluation, the
\* location is clean with a last-cleaned time taken during the evaluation,
\* and the session is gone.  (Requests served one at a time.)
C13_VerifiedEffects ==
    \A p \in Procs :
        SubmitDone(p) /\ req[p].result = "verified"
           => /\ ElapsedOf(req[p]) <= MaxElapsedMin
              /\ ApartOf(req[p]) <= MaxDistance
              /\ req[p].after_gps_accuracy <= MaxAccuracy
              /\ req[p].session.gps_accuracy <= MaxAccuracy
              /\ ~req[p].inHistory
              /\ Cardinality(EntriesOf(req[p].session_id)) = 1
              /\ \A i \in EntriesOf(req[p].session_id) :
                    /\ points_log[i].user_id = req[p].user_id
                    /\ points_log[i].location_id = req[p].location_id
                    /\ points_log[i].points \in {BasePoints, BonusPoints}
                    /\ points_log[i].month >= MonthOf(req[p].checkedAt)
                    /\ points_log[i].month <= MonthOf(now)
              /\ locations[req[p].location_id].status = "clean"
              /\ locations[req[p].location_id].last_cleaned_at >= req[p].checkedAt
              /\ locations[req[p].location_id].last_cleaned_at <= now
              /\ \A s \in pending_sessions : s.id # req[p].session_id

\* A verified evaluation of a location that was not clean before, made at
\* the last minute of the window and the last metre of the ceiling.
C13_Witness ==
    \E p \in Procs :
        /\ SubmitDone(p) /\ req[p].result = "verified"
        /\ ElapsedOf(req[p]) = MaxElapsedMin
        /\ ApartOf(req[p]) = MaxDistance
        /\ Len(cleanup_reports) = 1
        /\ locations[req[p].location_id].last_cleaned_at = MaxElapsedMin

\* The verified reports made from the session of ledger entry i.
ReportsBehind(i) ==
    {j \in DOMAIN cleanup_reports :
        /\ cleanup_reports[j].session = points_log[i].session
        /\ cleanup_reports[j].verified}

\* An earlier report of the same user and location that was verified.
PriorVerified(j) ==
    \E k \in 1..(j - 1) :
        /\ cleanup_reports[k].user_id = cleanup_reports[j].user_id
        /\ cleanup_reports[k].location_id = cleanup_reports[j].location_id
        /\ cleanup_reports[k].verified

\* C14: a verified evaluation awards 15 points when an earlier verified
\* CleanupReport of the same user and location exists, and 10 points
\* otherwise; earlier flagged reports do not count.
C14_BonusOnlyAfterVerified ==
    \A i \in DOMAIN points_log :
        \A j \in ReportsBehind(i) :
            points_log[i].points =
               IF PriorVerified(j) THEN BonusPoints ELSE BasePoints

\* The three hard checks of an answered evaluation.
PassedHardChecks(r) ==
    /\ ElapsedOf(r) <= MaxElapsedMin
    /\ ApartOf(r) <= MaxDistance
    /\ ~r.inHistory

\* C15: an evaluation that passes the hard checks always gets a successful
\* answer, verified or flagged; the one that ends unverified writes one
\* CleanupReport with verified = false and nothing else: the status of every
\* location, the ledger and the users' totals stay as they were, and the
\* answer is the 200 with verified = false.
C15_FlaggedOutcome ==
    /\ [](\A p \in Procs :
            /\ Evaluated(p) /\ PassedHardChecks(req[p])
                  => req[p].result \in {"verified", "flagged"}
            /\ SubmitDone(p) /\ req[p].result = "flagged"
                  => /\ PassedHardChecks(req[p])
                     /\ ~req[p].isVerified
                     /\ req[p].wrote = 1)
    /\ [][\A p \in Procs :
            /\ req[p].op = "submit" /\ req[p].pc = "insert"
            /\ ~req[p].isVerified
            /\ req'[p] # req[p]
            => /\ req'[p].pc = "done" /\ req'[p].result = "flagged"
               /\ Len(cleanup_reports') = Len(cleanup_reports) + 1
               /\ ~cleanup_reports'[Len(cleanup_reports')].verified
               /\ cleanup_reports'[Len(cleanup_reports')].session = req[p].session_id
               /\ locations' = locations
               /\ points_log' = points_log
               /\ users' = users]_vars

\* A flagged cleanup of a clean location: the after fix was low-confidence.
C15_Witness ==
    \E p \in Procs :
        /\ SubmitDone(p) /\ req[p].result = "flagged"
        /\ req[p].after_gps_accuracy > MaxAccuracy
        /\ locations[req[p].location_id].status = "clean"
        /\ Len(cleanup_reports) = 2
        /\ ~cleanup_reports[2].verified
        /\ Len(points_log) = 1

\* Either fix of the evaluation was reported with an accuracy over 50 m.
LowConfidence(r) ==
    r.after_gps_accuracy > MaxAccuracy \/ r.session.gps_accuracy > MaxAccuracy

\* The image diff block of the evaluation ended in its catch clause while
\* the collaborator was configured.
DiffFailed(r) == ~r.imageDiffPassed /\ r.cloudName

\* The CleanupReport written by an answered evaluation.
ReportOf(r) ==
    {j \in DOMAIN cleanup_reports :
        /\ cleanup_reports[j].session = r.session_id
        /\ cleanup_reports[j].after_image_hash = r.after_image_hash}

OwnedByAnother(sid, u) ==
    \E s \in pending_sessions : s.id = sid /\ s.user_id # u

\* C17: a cleanup submission that names a session of another user is
\* answered NotFound at once and writes nothing: the reports, the ledger,
\* the users' totals, every location's status and the sessions, the owner's
\* included, are as they were.
C17_ForeignSessionNotFound ==
    /\ [](\A p \in Procs :
            SubmitDone(p) /\ req[p].result = "NotFound" => req[p].wrote = 0)
    /\ [][\A p \in Procs :
            /\ req[p].op = "idle" /\ req'[p].op = "submit"
            /\ OwnedByAnother(req'[p].session_id, req'[p].user_id)
            => /\ req'[p].pc = "done" /\ req'[p].result = "NotFound"
               /\ cleanup_reports' = cleanup_reports
               /\ points_log' = points_log
               /\ users' = users
               /\ locations' = locations
               /\ pending_sessions' = pending_sessions]_vars

\* u2 has named u1's session and been answered NotFound; the session is
\* still there, as u1 opened it.
C17_Witness ==
    \E p \in Procs :
        /\ SubmitDone(p) /\ req[p].result = "NotFound"
        /\ req[p].user_id = "u2"
        /\ \E s \in pending_sessions :
              /\ s.id = req[p].session_id
              /\ s.user_id = "u1"
              /\ s.before_time = now

\* C18: when an evaluation writes the location's status, its CleanupReport
\* and its ledger entry are written and its session is deleted already, and
\* no write of the evaluation follows: the answer comes next.
C18_StatusWriteLast ==
    [][\A p \in Procs :
          /\ req[p].op = "submit" /\ req'[p] # req[p]
          /\ locations' # locations
          => /\ ReportsOf(req[p].session_id) >= 1
             /\ AwardsOf(req[p].session_id) >= 1
             /\ \A s \in pending_sessions : s.id # req[p].session_id
             /\ req'[p].pc = "done"]_vars

\* C19: every claim of a grid cell is answered with the cell's location,
\* found or created, also when two first claims of a cell run together, and
\* no cell has two Location rows.
C19_ClaimsConverge ==
    /\ \A c \in Cells : Cardinality(GridRows(c)) <= 1
    /\ \A p \in Procs :
          req[p].op = "claim" /\ req[p].pc = "done"
             => /\ req[p].result \in {"resolved", "created"}
                /\ \E r \in GridRows(req[p].cell) : r.id = req[p].locationId

\* C20: a PendingSession gets the server clock of the moment it is
\* inserted as its before_time, and its before_time never changes afterwards,
\* so an evaluation's elapsed time is the time the server has seen pass since
\* the session was opened.
C20_ServerStampedSessions ==
    [][/\ \A s \in pending_sessions' :
             (\A t \in pending_sessions : t.id # s.id) => s.before_time = now
       /\ \A s \in pending_sessions, t \in pending_sessions' :
             s.id = t.id => s.before_time = t.before_time]_vars

\* The ledger entries of u for l that a cleanup earned.
CleanupEntriesOf(u, l) ==
    Cardinality({i \in DOMAIN points_log :
                    /\ points_log[i].user_id = u
                    /\ points_log[i].location_id = l
                    /\ points_log[i].reason \in
                          {"verified_cleanup", "verified_cleanup_reclean"}})

\* The verified CleanupReports of u for l.
VerifiedOf(u, l) ==
    Cardinality({j \in DOMAIN cleanup_reports :
                    /\ cleanup_reports[j].user_id = u
                    /\ cleanup_reports[j].location_id = l
                    /\ cleanup_reports[j].verified})

\* The handler p appends its +3 batch.
ConfirmStep(p) ==
    /\ req[p].op = "report" /\ req[p].pc = "points"
    /\ req'[p] # req[p]

\* The handler p appends the ledger entry of its cleanup.
AwardStep(p) ==
    /\ req[p].op = "submit" /\ req[p].pc = "points"
    /\ req'[p] # req[p]

\* C21: every ledger entry has a cause.  The cleanup entries of a user for a
\* location are matched one to one by verified CleanupReports of that user
\* and location; a batch of dirty_confirmation entries is appended only by a
\* consensus check whose status update changed the location to dirty, one
\* entry for each user with a DirtyReport for the location; and nothing else
\* appends to, changes or removes from the ledger.
C21_LedgerCauses ==
    /\ [](\A u \in AllUsers, l \in AllLocs :
            CleanupEntriesOf(u, l) <= VerifiedOf(u, l))
    /\ [][\A p \in Procs :
            ConfirmStep(p)
               => /\ req[p].transitioned
                  /\ \A i \in (Len(points_log) + 1)..Len(points_log') :
                        /\ points_log'[i].reason = "dirty_confirmation"
                        /\ points_log'[i].location_id = req[p].location_id
                        /\ \E r \in dirty_reports :
                              /\ r.user_id = points_log'[i].user_id
                              /\ r.location_id = req[p].location_id]_vars
    /\ [][points_log' # points_log
             => /\ Len(points_log') > Len(points_log)
                /\ SubSeq(points_log', 1, Len(points_log)) = points_log
                /\ \E p \in Procs : ConfirmStep(p) \/ AwardStep(p)]_vars

\* The amounts a ledger entry can carry.
PointValues == {ConfirmationPoints, BasePoints, BonusPoints}

\* The entries of u in month m that carry v points.
EntriesWith(u, m, v) ==
    Cardinality({i \in DOMAIN points_log :
                    /\ points_log[i].user_id = u
                    /\ points_log[i].month = m
                    /\ points_log[i].points = v})

\* The sum of the points of the entries of u in month m.
LedgerSum(u, m) ==
    ConfirmationPoints * EntriesWith(u, m, ConfirmationPoints)
    + BasePoints * EntriesWith(u, m, BasePoints)
    + BonusPoints * EntriesWith(u, m, BonusPoints)

\* The months of the clock so far.
Months == 0..MonthOf(now)

\* The monthly total of u for m as the archive computes it.
MonthlyTotalFor(u, m) == Aggregate(MonthRows(m), [v \in AllUsers |-> 0])[u]

\* The handler p of the archive takes a step.
ArchiveStep(p) ==
    /\ req'[p] # req[p]
    /\ req[p].op = "archive" \/ req'[p].op = "archive"

\* C22: the monthly total computed for a user and a month, and stored in the
\* snapshot, equals the sum of the points of the ledger entries of that user
\* and month; entries appended for other months leave it as it was; and the
\* archive changes no ledger entry and removes none.
C22_MonthlyTotals ==
    /\ [](/\ \A i \in DOMAIN points_log : points_log[i].points \in PointValues
          /\ \A u \in AllUsers, m \in Months :
                MonthlyTotalFor(u, m) = LedgerSum(u, m)
          /\ \A row \in leaderboard_snapshots :
                row.points = LedgerSum(row.user_id, row.month))
    /\ [][\A u \in AllUsers, m \in Months :
            (\A i \in (Len(points_log) + 1)..Len(points_log') :
                 points_log'[i].month # m)
               => MonthlyTotalFor(u, m)' = MonthlyTotalFor(u, m)]_vars
    /\ [][\A p \in Procs : ArchiveStep(p) => points_log' = points_log]_vars

\* The archive of the first month has run in the second: u1, with a cleanup
\* in the first month and a confirmation in the second, is first with the 10
\* points of the first month.
C22_Witness ==
    /\ \E row \in leaderboard_snapshots :
          /\ row.user_id = "u1" /\ row.month = 0 /\ row.rank = 1
          /\ row.points = BasePoints
    /\ LedgerSum("u1", 1) = ConfirmationPoints
    /\ Cardinality(leaderboard_snapshots) = 1

\* README, Verification Layers: Time window (2-45 min)
MinSessionMin == 2
MaxSessionMin == 45

\* C23: a cleanup is verified only when the time from the session's
\* before_time to the submission is at least 2 and at most 45 minutes.
C23_SessionWindow ==
    \A p \in Procs :
        SubmitDone(p) /\ req[p].result = "verified"
           => /\ ElapsedOf(req[p]) >= MinSessionMin
              /\ ElapsedOf(req[p]) <= MaxSessionMin

\* C24: the location of the CleanupReport an evaluation writes, the
\* location its ledger entry is tagged with and the location it sets clean
\* are the target location of the session it consumed, whatever location the
\* submission names.
C24_SessionLocation ==
    \A p \in Procs :
        SubmitDone(p) /\ req[p].result \in {"verified", "flagged"}
           => /\ \A j \in ReportOf(req[p]) :
                    cleanup_reports[j].location_id = req[p].session.location_id
              /\ req[p].result = "verified"
                    => /\ \A i \in EntriesOf(req[p].session_id) :
                             points_log[i].location_id = req[p].session.location_id
                       /\ locations[req[p].session.location_id].status = "clean"

\* The fingerprints of CleanupReport j, in both roles.
FingerprintsOf(j) ==
    {cleanup_reports[j].before_image_hash, cleanup_reports[j].after_image_hash}

\* C25: no fingerprint appears in more than one CleanupReport, in the before
\* or the after role.
C25_FingerprintOnce ==
    \A i, j \in DOMAIN cleanup_reports :
        i # j => FingerprintsOf(i) \cap FingerprintsOf(j) = {}

\* The step appends a CleanupReport with verified = true.
StoresVerified ==
    /\ Len(cleanup_reports') = Len(cleanup_reports) + 1
    /\ cleanup_reports'[Len(cleanup_reports')].verified

\* C26: every CleanupReport stored with verified = true passed the trust
\* checks: its after_time is at most 120 minutes after its before_time, its
\* low-confidence flag is false, and it was written by an evaluation that
\* measured at most 500 m between the fixes and found neither accuracy over
\* 50 m; no other write stores a verified report.
C26_VerifiedPassedChecks ==
    /\ [](\A j \in DOMAIN cleanup_reports :
            cleanup_reports[j].verified
               => /\ cleanup_reports[j].after_time - cleanup_reports[j].before_time
                        <= MaxElapsedMin
                  /\ ~cleanup_reports[j].gps_low_confidence)
    /\ [][StoresVerified
             => \E p \in Procs :
                   /\ req[p].op = "submit" /\ req[p].pc = "insert"
                   /\ req'[p] # req[p]
                   /\ ElapsedOf(req[p]) <= MaxElapsedMin
                   /\ ApartOf(req[p]) <= MaxDistance
                   /\ ~LowConfidence(req[p])]_vars

\* The state InitDirty starts from is one the report calls reach.
DirtiedOnce ==
    /\ AfterConsensus /\ now = 0 /\ nextSession = 1
    /\ \A p \in Procs : req[p].op = "idle"

\* The users with a DirtyReport for l filed at t or later.
ReportersSince(l, t) ==
    {u \in AllUsers :
        \E r \in dirty_reports :
            r.user_id = u /\ r.location_id = l /\ r.created_at >= t}

\* C27: a location that a cleanup has set clean becomes dirty again only
\* once at least 3 distinct users have filed DirtyReports since that cleanup;
\* reports filed before it do not count.
C27_DecayNeedsNewReports ==
    [][\A l \in AllLocs :
          /\ locations[l].last_cleaned_at >= 0
          /\ locations[l].status # "dirty"
          /\ locations'[l].status = "dirty"
          => Cardinality(ReportersSince(l, locations[l].last_cleaned_at))
                >= ConsensusThreshold]_vars

\* The DirtyReports u has filed for l.
DirtyReportsOf(u, l) ==
    Cardinality({r \in dirty_reports : r.user_id = u /\ r.location_id = l})

\* C28: for every user and location the dirty_confirmation entries of the
\* user for the location are never more than the DirtyReports the user has
\* filed for it: one report is rewarded with +3 at most once.
C28_OneRewardPerReport ==
    \A u \in AllUsers, l \in AllLocs :
        ConfirmationsOf(u, l) <= DirtyReportsOf(u, l)

\* The entries of u that carry v points.
EntriesWorth(u, v) ==
    Cardinality({i \in DOMAIN points_log :
                    points_log[i].user_id = u /\ points_log[i].points = v})

\* The sum of the points of all ledger entries of u.
LedgerTotal(u) ==
    ConfirmationPoints * EntriesWorth(u, ConfirmationPoints)
    + BasePoints * EntriesWorth(u, BasePoints)
    + BonusPoints * EntriesWorth(u, BonusPoints)

\* Every request received so far has been answered.
Quiescent == \A p \in Procs : req[p].pc = "done"

\* C29: once the operations received have completed, the total_points
\* stored for each user is the sum of the points of the user's ledger
\* entries.
C29_TotalsMatchLedger ==
    Quiescent => \A u \in AllUsers : users[u].total_points = LedgerTotal(u)

\* A handler has just changed l to dirty for the reporters U of its window.
Transition(l, U) ==
    \E p \in Procs :
        /\ req[p].op = "report" /\ req[p].pc = "points"
        /\ req[p].transitioned
        /\ req[p].location_id = l /\ req[p].uniqueUsers = U

\* Every reporter of U has a +3 entry for l and every guardian of l has a
\* Notification.
Completed(l, U) ==
    /\ \A u \in U : ConfirmationsOf(u, l) >= 1
    /\ \A u \in AllUsers : Subscribed(u, l) => NotificationsOf(u, l) >= 1

\* C30: whenever a consensus check has changed a location to dirty, then
\* eventually, by that call or by a later report call for the location,
\* every distinct reporter of its window has a +3 entry and every guardian
\* of the location a Notification, also when the handler stops or its
\* points insert fails after the status update.
C30_TransitionCompleted ==
    \A l \in AllLocs, U \in SUBSET AllUsers :
        Transition(l, U) ~> Completed(l, U)

=============================================================================
